---- MODULE Spec2Model ----
(***************************************************************************)
(* Model of modules/file_manager.py (class FileManager) as it is used by   *)
(* app.py: one FileManager per Streamlit session (app.py:29-30), every     *)
(* FileManager working in the same directory <tmp>/pdf_processor.          *)
(*                                                                         *)
(* Time is counted in minutes.  Every handler reads datetime.now() at the  *)
(* places the code reads it; between two reads the clock may advance.      *)
(***************************************************************************)
EXTENDS Integers, Sequences, FiniteSets, TLC

(***************************************************************************)
(* Bounds of the model                                                     *)
(***************************************************************************)
\* number of uuid4 values drawn in a behaviour (files ever written)
MaxFiles == 2
\* number of values of the transfer-code space the model keeps
NumCodes == 2
\* largest advance of the clock between two reads inside one handler
MaxSkew == 1
\* number of windows a file's lifetime is extended, or shortened, by
MaxExtend == 1

(***************************************************************************)
(* Program constants                                                       *)
(***************************************************************************)
\* FileManager.__init__: self.expiration_minutes = 30
expiration_minutes == 30
\* FileManager.__init__: self.admin_expiration_hours = 48
admin_expiration_hours == 48
\* create_transfer_code: timedelta(hours=24)
transfer_expiry_hours == 24
\* create_transfer_code: random.randint(1000, 9999), lower end
CodeLo == 1000

\* timedelta(hours=h) and timedelta(minutes=m), in minutes
Hours(h) == h * 60
Minutes(m) == m

\* the codes random.randint can return in the model: CodeLo .. CodeLo+NumCodes-1
CodeSpace == CodeLo .. (CodeLo + NumCodes - 1)
\* what a user can type in the "Enter 4-digit transfer code" box: an issuable
\* code, or 999 standing for a 4-character input randint never returns
TypedCodes == CodeSpace \cup {999}

\* the sessions of the process, each with its own FileManager
Sessions == {"A", "B"}

\* the clock readings the model distinguishes: around 0, around the 30 min
\* window, around 24 h and around 48 h
Around(t) == {t, t + 1}
ClockReadings ==
    {0, 1, 29} \cup Around(Minutes(expiration_minutes))
      \cup Around(Hours(transfer_expiry_hours))
      \cup Around(Hours(admin_expiration_hours))

\* a later read of the clock inside the same handler
Later(t) == {u \in ClockReadings : t <= u /\ u <= t + MaxSkew}

\* the uploaded files (UploadedFile.name, UploadedFile.getvalue())
Uploads ==
    {[name |-> "a.pdf", data |-> <<37, 80, 68, 70>>],
     [name |-> "notes", data |-> <<>>]}

\* os.path.splitext(name)[1]
splitext1(name) ==
    CASE name = "a.pdf" -> ".pdf"
      [] name = "notes" -> ""
      [] OTHER -> ""

\* os.path.join(self.app_temp_dir, f"{prefix}{file_id}{file_extension}")
temp_path(prefix, file_id, ext) == <<prefix, file_id, ext>>

\* Python's None and a returned value
None == [kind |-> "None"]
Value(v) == [kind |-> "value", v |-> v]
\* "except Exception: return None", the failure swallowed
Raised_swallowed(msg) == [kind |-> "None"]

\* an exception leaving the method
Raised(msg) == [kind |-> "raise", v |-> msg]

VARIABLES
    now,             \* the wall clock, datetime.now()
    fs,              \* the directory app_temp_dir: path -> [data, mtime]
    file_registry,   \* per session: self.file_registry, file_id -> info
    transfer_codes,  \* per session: self.transfer_codes, code -> info
    next_id,         \* number of uuid4 values drawn so far
    pc,              \* per session: "idle", or "draw" inside the code loop
    local,           \* per session: locals of the running create_transfer_code
    ret              \* the last call: its name, argument and result

vars == <<now, fs, file_registry, transfer_codes, next_id, pc, local, ret>>

Empty == [x \in {} |-> None]
NoLocal == [uploaded_file |-> None, code |-> 0]
Call(op, arg, val) == [op |-> op, arg |-> arg, val |-> val]

\* FileManager.__init__ in every session, before any request
Init ==
    /\ now = 0
    /\ fs = Empty
    /\ file_registry = [s \in Sessions |-> Empty]
    /\ transfer_codes = [s \in Sessions |-> Empty]
    /\ next_id = 0
    /\ pc = [s \in Sessions |-> "idle"]
    /\ local = [s \in Sessions |-> NoLocal]
    /\ ret = Call("__init__", None, None)

\* f with key k set to v (dict[k] = v), and f without the keys K (del dict[k])
Put(f, k, v) == [x \in DOMAIN f \cup {k} |-> IF x = k THEN v ELSE f[x]]
Del(f, K) == [x \in DOMAIN f \ K |-> f[x]]

\* with open(path, "wb") as f: f.write(data), at clock reading t.
\* outcome "ok": the file holds data; "open_failed": no file is created;
\* "write_failed": open() created the file and write() raised.
WriteOutcomes == {"ok", "open_failed", "write_failed"}
WriteFile(dir, path, data, t, outcome) ==
    CASE outcome = "ok" -> Put(dir, path, [data |-> data, mtime |-> t])
      [] outcome = "write_failed" -> Put(dir, path, [data |-> <<>>, mtime |-> t])
      [] OTHER -> dir

\* os.remove(path) for every path of P that exists; it raises for the paths of
\* undeletable, which stay
RemoveFiles(dir, P, undeletable) == Del(dir, (P \cap DOMAIN dir) \ undeletable)

(***************************************************************************)
(* the clock advances between two requests                                 *)
(***************************************************************************)
Tick(t) ==
    /\ t > now
    /\ now' = t
    /\ UNCHANGED <<fs, file_registry, transfer_codes, next_id, pc, local, ret>>

\* every code random.randint can return is a key of the store of s
Exhausted(s) == CodeSpace \subseteq DOMAIN transfer_codes[s]

\* the calls inside create_transfer_code's loop that can leave it: each of
\* them still draws a uuid4, and the model has MaxFiles of these
InFlight == Cardinality({s \in Sessions : pc[s] = "draw" /\ ~Exhausted(s)})

(***************************************************************************)
(* create_transfer_code(uploaded_file)                                     *)
(***************************************************************************)
\* the loop without its test: the first code drawn is taken
CodeIsFree_untested(codes, code) == TRUE

\* the test of the loop: "if code not in self.transfer_codes: break"
CodeIsFree(codes, code) == code \notin DOMAIN codes

\* the record with the name of the stored file in place of uploaded_file.name
TransferInfo_temp_name(path, uploaded_file, t1, t2) ==
    [file_path |-> path,
     original_name |-> path[3],
     created_at |-> t1,
     expires_at |-> t2 + Hours(transfer_expiry_hours),
     size |-> Len(uploaded_file.data),
     downloaded |-> FALSE]

\* the record stored under the code; created_at and expires_at are two reads
\* of the clock, t1 and then t2
TransferInfo(path, uploaded_file, t1, t2) ==
    [file_path |-> path,
     original_name |-> uploaded_file.name,
     created_at |-> t1,
     expires_at |-> t2 + Hours(transfer_expiry_hours),
     size |-> Len(uploaded_file.data),
     downloaded |-> FALSE]

\* one iteration of "while True" with the drawn code, and when the code is
\* free the rest of the method
DrawCode(s, uploaded_file, code, outcome, t1, t2) ==
    IF ~CodeIsFree(transfer_codes[s], code)
    THEN /\ pc' = [pc EXCEPT ![s] = "draw"]
         /\ local' = [local EXCEPT ![s] =
                          [uploaded_file |-> uploaded_file, code |-> code]]
         /\ UNCHANGED <<now, fs, file_registry, transfer_codes, next_id, ret>>
    ELSE LET file_id == next_id + 1
             path == temp_path("transfer_", file_id, splitext1(uploaded_file.name))
         IN /\ next_id' = file_id
            /\ fs' = WriteFile(fs, path, uploaded_file.data, now, outcome)
            /\ IF outcome = "ok"
               THEN /\ transfer_codes' = [transfer_codes EXCEPT ![s] =
                          Put(@, code, TransferInfo(path, uploaded_file, t1, t2))]
                    /\ now' = t2
                    /\ ret' = Call("create_transfer_code", uploaded_file, Value(code))
               ELSE /\ transfer_codes' = transfer_codes
                    /\ now' = now
                    /\ ret' = Call("create_transfer_code", uploaded_file,
                                   Raised("Error creating transfer code"))
            /\ pc' = [pc EXCEPT ![s] = "idle"]
            /\ local' = [local EXCEPT ![s] = NoLocal]
            /\ UNCHANGED file_registry

\* the call, up to the first test of the loop or, with a free code, to the end
create_transfer_code(s, uploaded_file, code, outcome, t1, t2) ==
    /\ pc[s] = "idle"
    /\ next_id + InFlight < MaxFiles \/ Exhausted(s)
    /\ code \in CodeSpace
    /\ t1 \in Later(now) /\ t2 \in Later(t1)
    /\ DrawCode(s, uploaded_file, code, outcome, t1, t2)

\* a further iteration of the loop of a call whose last code was taken
create_transfer_code_loop(s, code, outcome, t1, t2) ==
    /\ pc[s] = "draw"
    /\ code \in CodeSpace
    /\ t1 \in Later(now) /\ t2 \in Later(t1)
    /\ DrawCode(s, local[s].uploaded_file, code, outcome, t1, t2)

(***************************************************************************)
(* get_file_by_code(code)                                                  *)
(***************************************************************************)
get_file_by_code(s, code) ==
    /\ pc[s] = "idle"
    /\ ret' = Call("get_file_by_code", code,
                   IF code \in DOMAIN transfer_codes[s]
                   THEN Value(transfer_codes[s][code]) ELSE None)
    /\ UNCHANGED <<now, fs, file_registry, transfer_codes, next_id, pc, local>>

(***************************************************************************)
(* download_by_code(code)                                                  *)
(***************************************************************************)
\* the expiry test with the comparison turned round
TransferExpired_reversed(t, file_info) == t < file_info.expires_at

\* "if datetime.now() > file_info['expires_at']: return None"
TransferExpired(t, file_info) == t > file_info.expires_at

\* download_by_code marking the record before its tests
download_by_code_marks_first(s, code) ==
    /\ pc[s] = "idle"
    /\ IF code \in DOMAIN transfer_codes[s]
       THEN LET file_info == transfer_codes[s][code]
            IN /\ transfer_codes' = [transfer_codes EXCEPT ![s][code].downloaded = TRUE]
               /\ ret' = Call("download_by_code", code,
                              IF \/ TransferExpired(now, file_info)
                                 \/ file_info.file_path \notin DOMAIN fs
                              THEN None
                              ELSE Value(<<fs[file_info.file_path].data,
                                           file_info.original_name>>))
       ELSE /\ ret' = Call("download_by_code", code, None)
            /\ UNCHANGED transfer_codes
    /\ UNCHANGED <<now, fs, file_registry, next_id, pc, local>>

\* the record is marked after the expiry test, the existence test and the read
download_by_code(s, code) ==
    /\ pc[s] = "idle"
    /\ IF code \in DOMAIN transfer_codes[s]
       THEN LET file_info == transfer_codes[s][code]
            IN IF TransferExpired(now, file_info)
               THEN /\ ret' = Call("download_by_code", code, None)
                    /\ UNCHANGED transfer_codes
               ELSE IF file_info.file_path \notin DOMAIN fs
               THEN /\ ret' = Call("download_by_code", code, None)
                    /\ UNCHANGED transfer_codes
               ELSE /\ transfer_codes' = [transfer_codes EXCEPT
                                             ![s][code].downloaded = TRUE]
                    /\ ret' = Call("download_by_code", code,
                                   Value(<<fs[file_info.file_path].data,
                                           file_info.original_name>>))
       ELSE /\ ret' = Call("download_by_code", code, None)
            /\ UNCHANGED transfer_codes
    /\ UNCHANGED <<now, fs, file_registry, next_id, pc, local>>

(***************************************************************************)
(* cleanup_expired_files() with _cleanup_orphaned_files()                  *)
(***************************************************************************)
\* the scan comparing the clock with created_at instead of expires_at
ExpiredFiles_created_at(registry, current_time) ==
    {file_id \in DOMAIN registry : current_time > registry[file_id].created_at}

\* "if current_time > file_info['expires_at']: expired_files.append(file_id)"
ExpiredFiles(registry, current_time) ==
    {file_id \in DOMAIN registry : current_time > registry[file_id].expires_at}

\* registered_paths = {info['path'] for info in self.file_registry.values()}
RegisteredPaths(registry) == {registry[file_id].path : file_id \in DOMAIN registry}

\* _cleanup_orphaned_files without the test of the file's age
Orphans_any_age(dir, registry, current_time) ==
    {path \in DOMAIN dir : path \notin RegisteredPaths(registry)}

\* the files _cleanup_orphaned_files removes: not registered and
\* file_age.total_seconds() > self.expiration_minutes * 60
Orphans(dir, registry, current_time) ==
    {path \in DOMAIN dir :
        /\ path \notin RegisteredPaths(registry)
        /\ (current_time - dir[path].mtime) * 60 > expiration_minutes * 60}

\* a sweep that a failing os.remove ends: the expired files after the one
\* whose blob stays are left, and _cleanup_orphaned_files is not called
cleanup_expired_files_abort(s, undeletable, t1) ==
    /\ pc[s] = "idle"
    /\ t1 \in Later(now)
    /\ undeletable \subseteq DOMAIN fs
    /\ LET expired_files == ExpiredFiles(file_registry[s], now)
           failing == {file_id \in expired_files :
                          file_registry[s][file_id].path \in undeletable}
           done == {file_id \in expired_files : \A f \in failing : file_id < f}
           done_paths == {file_registry[s][file_id].path : file_id \in done}
           registry == Del(file_registry[s], done)
           dir == RemoveFiles(fs, done_paths, undeletable)
       IN /\ file_registry' = [file_registry EXCEPT ![s] = registry]
          /\ fs' = IF failing = {}
                   THEN RemoveFiles(dir, Orphans(dir, registry, t1), undeletable)
                   ELSE dir
    /\ now' = t1
    /\ ret' = Call("cleanup_expired_files", None, None)
    /\ UNCHANGED <<transfer_codes, next_id, pc, local>>

\* t1 is the clock read by _cleanup_orphaned_files; os.remove raises for the
\* files of undeletable
cleanup_expired_files(s, undeletable, t1) ==
    /\ pc[s] = "idle"
    /\ t1 \in Later(now)
    /\ undeletable \subseteq DOMAIN fs
    /\ LET expired_files == ExpiredFiles(file_registry[s], now)
           expired_paths == {file_registry[s][file_id].path : file_id \in expired_files}
           registry == Del(file_registry[s], expired_files)
           dir == RemoveFiles(fs, expired_paths, undeletable)
       IN /\ file_registry' = [file_registry EXCEPT ![s] = registry]
          /\ fs' = RemoveFiles(dir, Orphans(dir, registry, t1), undeletable)
    /\ now' = t1
    /\ ret' = Call("cleanup_expired_files", None, None)
    /\ UNCHANGED <<transfer_codes, next_id, pc, local>>

(***************************************************************************)
(* save_uploaded_file(uploaded_file, is_admin)                             *)
(***************************************************************************)
\* "Set expiration based on user type", from the clock reading t
UploadExpiration(is_admin, t) ==
    IF is_admin THEN t + Hours(admin_expiration_hours)
                ELSE t + Minutes(expiration_minutes)

\* expiration_time is computed from the read t1, created_at is the read t2
save_uploaded_file(s, uploaded_file, is_admin, outcome, t1, t2) ==
    /\ pc[s] = "idle"
    /\ next_id + InFlight < MaxFiles
    /\ t1 \in Later(now) /\ t2 \in Later(t1)
    /\ LET file_id == next_id + 1
           path == temp_path("", file_id, splitext1(uploaded_file.name))
       IN /\ next_id' = file_id
          /\ fs' = WriteFile(fs, path, uploaded_file.data, now, outcome)
          /\ IF outcome = "ok"
             THEN /\ file_registry' = [file_registry EXCEPT ![s] = Put(@, file_id,
                          [path |-> path,
                           original_name |-> uploaded_file.name,
                           created_at |-> t2,
                           expires_at |-> UploadExpiration(is_admin, t1),
                           size |-> Len(uploaded_file.data),
                           is_admin |-> is_admin,
                           file_id |-> file_id])]
                  /\ now' = t2
                  /\ ret' = Call("save_uploaded_file", uploaded_file, Value(path))
             ELSE /\ file_registry' = file_registry
                  /\ now' = now
                  /\ ret' = Call("save_uploaded_file", uploaded_file,
                                 Raised("Error saving uploaded file"))
    /\ UNCHANGED <<transfer_codes, pc, local>>

(***************************************************************************)
(* save_processed_file(source_path, output_name)                           *)
(***************************************************************************)
\* the file at source_path was written by the operation that has just run
Earlier(t) == {u \in ClockReadings : u <= t /\ t <= u + MaxSkew}

\* shutil.copy2(source_path, temp_path): the data and the modification time of
\* the source; "copy_failed": no file is created
CopyOutcomes == {"ok", "copy_failed"}
CopyFile(dir, path, source, outcome) ==
    IF outcome = "ok"
    THEN Put(dir, path, [data |-> source.data, mtime |-> source.mtime])
    ELSE dir

\* created_at is the read t1, expires_at is computed from the read t2
save_processed_file(s, source, src_mtime, outcome, t1, t2) ==
    /\ pc[s] = "idle"
    /\ next_id + InFlight < MaxFiles
    /\ src_mtime \in Earlier(now)
    /\ t1 \in Later(now) /\ t2 \in Later(t1)
    /\ LET file_id == next_id + 1
           path == temp_path("", file_id, splitext1(source.name))
       IN /\ next_id' = file_id
          /\ fs' = CopyFile(fs, path,
                            [data |-> source.data, mtime |-> src_mtime], outcome)
          /\ IF outcome = "ok"
             THEN /\ file_registry' = [file_registry EXCEPT ![s] = Put(@, file_id,
                          [path |-> path,
                           original_name |-> source.name,
                           created_at |-> t1,
                           expires_at |-> t2 + Minutes(expiration_minutes),
                           size |-> Len(source.data)])]
                  /\ now' = t2
                  /\ ret' = Call("save_processed_file", source, Value(path))
             ELSE /\ file_registry' = file_registry
                  /\ now' = now
                  /\ ret' = Call("save_processed_file", source,
                                 Raised("Error saving processed file"))
    /\ UNCHANGED <<transfer_codes, pc, local>>

(***************************************************************************)
(* get_file_info(file_id)                                                  *)
(***************************************************************************)
\* self.file_registry.get(file_id)
RegistryGet(registry, file_id) ==
    IF file_id \in DOMAIN registry THEN Value(registry[file_id]) ELSE None

get_file_info(s, file_id) ==
    /\ pc[s] = "idle"
    /\ ret' = Call("get_file_info", file_id, RegistryGet(file_registry[s], file_id))
    /\ UNCHANGED <<now, fs, file_registry, transfer_codes, next_id, pc, local>>

(***************************************************************************)
(* delete_file(file_id)                                                    *)
(***************************************************************************)
\* delete_file without "del self.file_registry[file_id]"
delete_file_blob_only(s, file_id, undeletable) ==
    /\ pc[s] = "idle"
    /\ undeletable \subseteq DOMAIN fs
    /\ IF file_id \in DOMAIN file_registry[s]
       THEN /\ fs' = RemoveFiles(fs, {file_registry[s][file_id].path}, undeletable)
            /\ ret' = Call("delete_file", file_id, Value(TRUE))
       ELSE /\ fs' = fs
            /\ ret' = Call("delete_file", file_id, Value(FALSE))
    /\ UNCHANGED <<now, file_registry, transfer_codes, next_id, pc, local>>

\* os.remove raises for the files of undeletable: "except: return False"
delete_file(s, file_id, undeletable) ==
    /\ pc[s] = "idle"
    /\ undeletable \subseteq DOMAIN fs
    /\ IF file_id \in DOMAIN file_registry[s]
       THEN LET file_path == file_registry[s][file_id].path
            IN IF file_path \in DOMAIN fs /\ file_path \in undeletable
               THEN /\ ret' = Call("delete_file", file_id, Value(FALSE))
                    /\ UNCHANGED <<fs, file_registry>>
               ELSE /\ fs' = RemoveFiles(fs, {file_path}, {})
                    /\ file_registry' = [file_registry EXCEPT ![s] = Del(@, {file_id})]
                    /\ ret' = Call("delete_file", file_id, Value(TRUE))
       ELSE /\ ret' = Call("delete_file", file_id, Value(FALSE))
            /\ UNCHANGED <<fs, file_registry>>
    /\ UNCHANGED <<now, transfer_codes, next_id, pc, local>>

(***************************************************************************)
(* The requests of one session, without input/output failures              *)
(***************************************************************************)
FileIds == 1 .. MaxFiles

\* a code is asked of a store that has a free one
CreateStep(s) ==
    \/ \E u \in Uploads, code \in CodeSpace :
          \E t1 \in Later(now) : \E t2 \in Later(t1) :
             ~Exhausted(s) /\ create_transfer_code(s, u, code, "ok", t1, t2)
    \/ \E code \in CodeSpace :
          \E t1 \in Later(now) : \E t2 \in Later(t1) :
             create_transfer_code_loop(s, code, "ok", t1, t2)

\* a code is asked of a store that has no free one
CreateWhenExhausted(s) ==
    \E u \in Uploads, code \in CodeSpace :
       \E t1 \in Later(now) : \E t2 \in Later(t1) :
          Exhausted(s) /\ create_transfer_code(s, u, code, "ok", t1, t2)

TransferStep(s) ==
    \/ CreateStep(s)
    \/ \E code \in TypedCodes : download_by_code(s, code)
    \/ \E t1 \in Later(now) : cleanup_expired_files(s, {}, t1)

RegistryStep(s) ==
    \/ \E u \in Uploads, is_admin \in BOOLEAN :
          \E t1 \in Later(now) : \E t2 \in Later(t1) :
             save_uploaded_file(s, u, is_admin, "ok", t1, t2)
    \/ \E u \in Uploads : \E m \in Earlier(now) :
          \E t1 \in Later(now) : \E t2 \in Later(t1) :
             save_processed_file(s, u, m, "ok", t1, t2)
    \/ \E file_id \in FileIds : get_file_info(s, file_id)
    \/ \E t1 \in Later(now) : cleanup_expired_files(s, {}, t1)

\* the clock readings between requests: past the sweep's window, and past the
\* 24 hours of a code (a code created with a late second clock reading
\* expires at exactly that reading)
TransferClock == {31, Hours(transfer_expiry_hours) + 1}
RegistryClock == {29, 31}

(***************************************************************************)
(* Spec: one FileManager (one store) serving transfer requests             *)
(***************************************************************************)
Next ==
    \/ \E t \in TransferClock : Tick(t)
    \/ TransferStep("A")

Spec == Init /\ [][Next]_vars

(***************************************************************************)
(* SpecCapacity: Spec, and codes asked of a store whose code space is full. *)
(* The interpreter keeps running a loop it has entered.                    *)
(***************************************************************************)
NextCapacity ==
    \/ Next
    \/ CreateWhenExhausted("A")

LoopRuns(s) ==
    \E code \in CodeSpace :
       \E t1 \in Later(now) : \E t2 \in Later(t1) :
          create_transfer_code_loop(s, code, "ok", t1, t2)

SpecCapacity == Init /\ [][NextCapacity]_vars /\ WF_vars(LoopRuns("A"))

(***************************************************************************)
(* SpecSessions: the sessions of app.py, one FileManager each              *)
(***************************************************************************)
NextSessions ==
    \/ \E t \in TransferClock : Tick(t)
    \/ \E s \in Sessions : TransferStep(s)

SpecSessions == Init /\ [][NextSessions]_vars

(***************************************************************************)
(* SpecRegistry: one FileManager serving uploads and processing results    *)
(***************************************************************************)
NextRegistry ==
    \/ \E t \in RegistryClock : Tick(t)
    \/ RegistryStep("A")

SpecRegistry == Init /\ [][NextRegistry]_vars

(***************************************************************************)
(* Two requests running on one FileManager, statement by statement.        *)
(* FileManager takes no lock: a thread th working on the store of session  *)
(* s is pre-empted between any two statements.                             *)
(***************************************************************************)
\* the requests that hold a uuid still to be drawn
Pending == Cardinality({th \in Sessions : pc[th] \in {"draw", "reserve"}})

\* create_transfer_code, one turn of "while True": the draw and its test
code_loop_test(th, s, uploaded_file, code) ==
    /\ code \in CodeSpace
    /\ \/ pc[th] = "idle" /\ next_id + Pending < MaxFiles
       \/ pc[th] = "draw" /\ uploaded_file = local[th].uploaded_file
    /\ pc' = [pc EXCEPT ![th] =
                 IF CodeIsFree(transfer_codes[s], code) THEN "reserve" ELSE "draw"]
    /\ local' = [local EXCEPT ![th] = [uploaded_file |-> uploaded_file, code |-> code]]
    /\ UNCHANGED <<now, fs, file_registry, transfer_codes, next_id, ret>>

\* create_transfer_code, from the end of the loop to "return code"
code_reserve(th, s, t1, t2) ==
    /\ pc[th] = "reserve"
    /\ t1 \in Later(now)
    /\ t2 \in Later(t1)
    /\ LET uploaded_file == local[th].uploaded_file
           code == local[th].code
           file_id == next_id + 1
           path == temp_path("transfer_", file_id, splitext1(uploaded_file.name))
       IN /\ next_id' = file_id
          /\ fs' = WriteFile(fs, path, uploaded_file.data, now, "ok")
          /\ transfer_codes' = [transfer_codes EXCEPT ![s] =
                Put(@, code, TransferInfo(path, uploaded_file, t1, t2))]
          /\ now' = t2
          /\ ret' = Call("create_transfer_code", uploaded_file, Value(code))
    /\ pc' = [pc EXCEPT ![th] = "idle"]
    /\ local' = [local EXCEPT ![th] = NoLocal]
    /\ UNCHANGED file_registry

\* delete_file, up to and including os.remove(file_path)
delete_file_remove(th, s, file_id) ==
    /\ pc[th] = "idle"
    /\ IF file_id \in DOMAIN file_registry[s]
       THEN /\ fs' = RemoveFiles(fs, {file_registry[s][file_id].path}, {})
            /\ pc' = [pc EXCEPT ![th] = "del"]
            /\ local' = [local EXCEPT ![th] = [file_id |-> file_id]]
            /\ ret' = ret
       ELSE /\ ret' = Call("delete_file", file_id, Value(FALSE))
            /\ UNCHANGED <<fs, pc, local>>
    /\ UNCHANGED <<now, file_registry, transfer_codes, next_id>>

\* delete_file, "del self.file_registry[file_id]" and "return True"; the del
\* of a key another request has deleted raises: "except: return False"
delete_file_del(th, s) ==
    /\ pc[th] = "del"
    /\ LET file_id == local[th].file_id
       IN /\ file_registry' = [file_registry EXCEPT ![s] = Del(@, {file_id})]
          /\ ret' = Call("delete_file", file_id,
                         Value(file_id \in DOMAIN file_registry[s]))
    /\ pc' = [pc EXCEPT ![th] = "idle"]
    /\ local' = [local EXCEPT ![th] = NoLocal]
    /\ UNCHANGED <<now, fs, transfer_codes, next_id>>

\* get_file_info, called by thread th on the store of session s
get_file_info_by(th, s, file_id) ==
    /\ pc[th] = "idle"
    /\ ret' = Call("get_file_info", file_id, RegistryGet(file_registry[s], file_id))
    /\ UNCHANGED <<now, fs, file_registry, transfer_codes, next_id, pc, local>>

ThreadStep(th, s) ==
    \/ \E u \in Uploads, code \in CodeSpace : code_loop_test(th, s, u, code)
    \/ \E t1 \in Later(now) : \E t2 \in Later(t1) : code_reserve(th, s, t1, t2)
    \/ \E file_id \in FileIds : delete_file_remove(th, s, file_id)
    \/ delete_file_del(th, s)
    \/ \E file_id \in FileIds : get_file_info_by(th, s, file_id)

(***************************************************************************)
(* SpecThreads: two request threads on the FileManager of session "A"      *)
(***************************************************************************)
NextThreads ==
    \/ \E u \in Uploads : \E t1 \in Later(now) : \E t2 \in Later(t1) :
          Pending = 0 /\ save_uploaded_file("A", u, FALSE, "ok", t1, t2)
    \/ \E th \in Sessions : ThreadStep(th, "A")

SpecThreads == Init /\ [][NextThreads]_vars

(***************************************************************************)
(* SpecFaults: one FileManager whose directory refuses some writes and     *)
(* some removals                                                           *)
(***************************************************************************)
FaultStep(s) ==
    \/ \E u \in Uploads, outcome \in WriteOutcomes :
          \E t1 \in Later(now) : \E t2 \in Later(t1) :
             save_uploaded_file(s, u, FALSE, outcome, t1, t2)
    \/ \E file_id \in FileIds, undeletable \in SUBSET DOMAIN fs :
          delete_file(s, file_id, undeletable)
    \/ \E undeletable \in SUBSET DOMAIN fs :
          \E t1 \in Later(now) : cleanup_expired_files(s, undeletable, t1)
    \/ \E file_id \in FileIds : get_file_info(s, file_id)

NextFaults ==
    \/ \E t \in RegistryClock : Tick(t)
    \/ FaultStep("A")

SpecFaults == Init /\ [][NextFaults]_vars

(***************************************************************************)
(* SpecAdmin: one FileManager serving uploads and the admin panel's delete *)
(***************************************************************************)
AdminStep(s) ==
    \/ \E u \in Uploads, is_admin \in BOOLEAN :
          \E t1 \in Later(now) : \E t2 \in Later(t1) :
             save_uploaded_file(s, u, is_admin, "ok", t1, t2)
    \/ \E file_id \in FileIds : delete_file(s, file_id, {})
    \/ \E file_id \in FileIds : get_file_info(s, file_id)
    \/ \E t1 \in Later(now) : cleanup_expired_files(s, {}, t1)

NextAdmin ==
    \/ \E t \in RegistryClock : Tick(t)
    \/ AdminStep("A")

SpecAdmin == Init /\ [][NextAdmin]_vars

(***************************************************************************)
(* A new session: app.py constructs a FileManager with empty maps over the *)
(* directory the earlier ones have written to.                             *)
(***************************************************************************)
FileManager(s) ==
    /\ pc[s] = "idle"
    /\ file_registry' = [file_registry EXCEPT ![s] = Empty]
    /\ transfer_codes' = [transfer_codes EXCEPT ![s] = Empty]
    /\ ret' = Call("__init__", None, None)
    /\ UNCHANGED <<now, fs, next_id, pc, local>>

(***************************************************************************)
(* SpecOrphans: the uploads and sweeps of one browser, whose session is    *)
(* replaced by a new one now and then                                      *)
(***************************************************************************)
OrphanStep(s) ==
    \/ \E u \in Uploads, is_admin \in BOOLEAN :
          \E t1 \in Later(now) : \E t2 \in Later(t1) :
             save_uploaded_file(s, u, is_admin, "ok", t1, t2)
    \/ FileManager(s)
    \/ \E t1 \in Later(now) : cleanup_expired_files(s, {}, t1)

NextOrphans ==
    \/ \E t \in RegistryClock : Tick(t)
    \/ OrphanStep("A")

SpecOrphans == Init /\ [][NextOrphans]_vars

(***************************************************************************)
(* SpecInvalid: Spec, and requests with input no FileManager method checks *)
(***************************************************************************)
\* an upload whose name is empty
InvalidUploads == {[name |-> "", data |-> <<>>]}

\* typed text that is no string of four digits ("12a4"), as a key no code is
MalformedCodes == {-1}

InvalidStep(s) ==
    \/ \E u \in InvalidUploads :
          \E t1 \in Later(now) : \E t2 \in Later(t1) :
             save_uploaded_file(s, u, FALSE, "ok", t1, t2)
    \/ \E code \in MalformedCodes : get_file_by_code(s, code)
    \/ \E code \in MalformedCodes : download_by_code(s, code)

NextInvalid ==
    \/ Next
    \/ InvalidStep("A")

SpecInvalid == Init /\ [][NextInvalid]_vars

(***************************************************************************)
(* extend_file_expiration(file_path, additional_minutes=30)                *)
(***************************************************************************)
\* file_info['expires_at'] += timedelta(minutes=additional_minutes), of now
NewExpiration_from_now(file_info, additional_minutes) ==
    now + Minutes(additional_minutes)

\* file_info['expires_at'] += timedelta(minutes=additional_minutes)
NewExpiration(file_info, additional_minutes) ==
    file_info.expires_at + Minutes(additional_minutes)

\* the first record of the registry whose path is file_path; paths hold a
\* uuid4, so no two records have the same
extend_file_expiration(s, file_path, additional_minutes) ==
    /\ pc[s] = "idle"
    /\ LET found == {file_id \in DOMAIN file_registry[s] :
                        file_registry[s][file_id].path = file_path}
       IN IF found # {}
          THEN LET file_id == CHOOSE f \in found : TRUE
                   file_info == file_registry[s][file_id]
               IN /\ file_registry' = [file_registry EXCEPT ![s][file_id].expires_at =
                                          NewExpiration(file_info, additional_minutes)]
                  /\ ret' = Call("extend_file_expiration", file_path, Value(TRUE))
          ELSE /\ file_registry' = file_registry
               /\ ret' = Call("extend_file_expiration", file_path, Value(FALSE))
    /\ UNCHANGED <<now, fs, transfer_codes, next_id, pc, local>>

(***************************************************************************)
(* SpecExtend: one FileManager serving uploads, extensions and sweeps      *)
(***************************************************************************)
\* the paths a caller holds: those save_uploaded_file has returned or may
AnyPaths == {temp_path("", file_id, splitext1(u.name)) : file_id \in FileIds, u \in Uploads}

AdditionalMinutes == {expiration_minutes, -expiration_minutes}

\* the file of file_path has been extended, or shortened, by MaxExtend windows
AtExtendBound(s, file_path, additional_minutes) ==
    \E file_id \in DOMAIN file_registry[s] :
       LET file_info == file_registry[s][file_id]
           lifetime == NewExpiration(file_info, additional_minutes) - file_info.created_at
           window == IF file_info.is_admin THEN Hours(admin_expiration_hours)
                                           ELSE Minutes(expiration_minutes)
       IN /\ file_info.path = file_path
          /\ \/ lifetime > window + MaxExtend * Minutes(expiration_minutes)
             \/ lifetime < window - MaxExtend * Minutes(expiration_minutes) - MaxSkew

ExtendStep(s) ==
    \/ \E u \in Uploads :
          \E t1 \in Later(now) : \E t2 \in Later(t1) :
             save_uploaded_file(s, u, FALSE, "ok", t1, t2)
    \/ \E file_path \in AnyPaths, additional_minutes \in AdditionalMinutes :
          /\ ~AtExtendBound(s, file_path, additional_minutes)
          /\ extend_file_expiration(s, file_path, additional_minutes)
    \/ \E t1 \in Later(now) : cleanup_expired_files(s, {}, t1)

NextExtend == ExtendStep("A")

SpecExtend == Init /\ [][NextExtend]_vars

(***************************************************************************)
(* get_all_files(): "return self.file_registry", the dict itself, not a    *)
(* copy.  handle_admin_panel keeps it in all_files (app.py:196) and reads  *)
(* its items on return (app.py:198, 204); all_files is still held when    *)
(* the panel calls delete_file (app.py:271).                               *)
(***************************************************************************)
get_all_files(s) ==
    /\ pc[s] = "idle"
    /\ ret' = Call("get_all_files", None, Value([registry_of |-> s]))
    /\ local' = [local EXCEPT ![s] = [all_files |-> [registry_of |-> s],
                                      items |-> file_registry[s]]]
    /\ UNCHANGED <<now, fs, file_registry, transfer_codes, next_id, pc>>

\* all_files.items(), read through the value get_all_files has returned
Items(all_files) == file_registry[all_files.registry_of]

(***************************************************************************)
(* SpecList: SpecAdmin, and the admin panel's list of files                *)
(***************************************************************************)
NextList ==
    \/ NextAdmin
    \/ get_all_files("A")

SpecList == Init /\ [][NextList]_vars

(***************************************************************************)
(* SpecRevive: one FileManager whose files expire before they are          *)
(* extended, looked up or swept                                            *)
(***************************************************************************)
ReviveStep(s) ==
    \/ \E u \in Uploads :
          \E t1 \in Later(now) : \E t2 \in Later(t1) :
             save_uploaded_file(s, u, FALSE, "ok", t1, t2)
    \/ \E file_path \in AnyPaths :
          /\ ~AtExtendBound(s, file_path, expiration_minutes)
          /\ extend_file_expiration(s, file_path, expiration_minutes)
    \/ \E file_id \in FileIds : get_file_info(s, file_id)
    \/ \E t1 \in Later(now) : cleanup_expired_files(s, {}, t1)

NextRevive ==
    \/ \E t \in RegistryClock : Tick(t)
    \/ ReviveStep("A")

SpecRevive == Init /\ [][NextRevive]_vars

(***************************************************************************)
(* SpecFairDraws: SpecCapacity with a fair random.randint: a running loop  *)
(* draws every code of the code space again and again.                     *)
(***************************************************************************)
LoopDraws(s, code) ==
    \E t1 \in Later(now) : \E t2 \in Later(t1) :
       create_transfer_code_loop(s, code, "ok", t1, t2)

SpecFairDraws ==
    /\ Init
    /\ [][NextCapacity]_vars
    /\ \A code \in CodeSpace : WF_vars(LoopDraws("A", code))

(***************************************************************************)
(* SpecSweepFaults: one FileManager whose sweeps meet at most one file     *)
(* that os.remove cannot delete, and whose writes may fail                 *)
(***************************************************************************)
\* no failure, or the failure of one file
SingleFailures(dir) == {{}} \cup {{path} : path \in DOMAIN dir}

\* every upload leaves a file: a whole one, or the empty one of a failed write
SweepFaultStep(s) ==
    \/ \E u \in Uploads, outcome \in {"ok", "write_failed"} :
          \E t1 \in Later(now) : \E t2 \in Later(t1) :
             save_uploaded_file(s, u, FALSE, outcome, t1, t2)
    \/ \E undeletable \in SingleFailures(fs) :
          \E t1 \in Later(now) : cleanup_expired_files(s, undeletable, t1)

NextSweepFaults ==
    \/ \E t \in RegistryClock : Tick(t)
    \/ SweepFaultStep("A")

SpecSweepFaults == Init /\ [][NextSweepFaults]_vars

(***************************************************************************)
(* SpecRedeem: one FileManager serving the "Receive File" panel: a code is *)
(* looked up (get_file_by_code) and then downloaded (download_by_code)     *)
(***************************************************************************)
RedeemStep(s) ==
    \/ CreateStep(s)
    \/ \E code \in CodeSpace : get_file_by_code(s, code)
    \/ \E code \in CodeSpace : download_by_code(s, code)
    \/ \E t1 \in Later(now) : cleanup_expired_files(s, {}, t1)

\* the clock readings between requests: blobs older than the sweep's window,
\* records past their 24 hours
RedeemClock == {expiration_minutes + 1, Hours(transfer_expiry_hours) + 1}

NextRedeem ==
    \/ \E t \in RedeemClock : Tick(t)
    \/ RedeemStep("A")

SpecRedeem == Init /\ [][NextRedeem]_vars

(***************************************************************************)
(* SpecWriteFaults: one FileManager whose directory refuses some writes    *)
(* and some copies                                                         *)
(***************************************************************************)
WriteFaultStep(s) ==
    \/ \E u \in Uploads, outcome \in WriteOutcomes :
          \E t1 \in Later(now) : \E t2 \in Later(t1) :
             save_uploaded_file(s, u, FALSE, outcome, t1, t2)
    \/ \E u \in Uploads, outcome \in CopyOutcomes : \E m \in Earlier(now) :
          \E t1 \in Later(now) : \E t2 \in Later(t1) :
             save_processed_file(s, u, m, outcome, t1, t2)
    \/ \E u \in Uploads, code \in CodeSpace, outcome \in WriteOutcomes :
          \E t1 \in Later(now) : \E t2 \in Later(t1) :
             ~Exhausted(s) /\ create_transfer_code(s, u, code, outcome, t1, t2)
    \/ \E code \in CodeSpace, outcome \in WriteOutcomes :
          \E t1 \in Later(now) : \E t2 \in Later(t1) :
             create_transfer_code_loop(s, code, outcome, t1, t2)

NextWriteFaults == WriteFaultStep("A")

SpecWriteFaults == Init /\ [][NextWriteFaults]_vars

(***************************************************************************)
(* SpecSharedDir: the sessions of app.py, one FileManager each, uploading  *)
(* to and sweeping the one directory                                       *)
(***************************************************************************)
SharedDirStep(s) ==
    \/ \E u \in Uploads, is_admin \in BOOLEAN :
          \E t1 \in Later(now) : \E t2 \in Later(t1) :
             save_uploaded_file(s, u, is_admin, "ok", t1, t2)
    \/ \E t1 \in Later(now) : cleanup_expired_files(s, {}, t1)

NextSharedDir ==
    \/ \E t \in RegistryClock : Tick(t)
    \/ \E s \in Sessions : SharedDirStep(s)

SpecSharedDir == Init /\ [][NextSharedDir]_vars

(***************************************************************************)
(* cleanup_expired_files, statement by statement, by a thread th working   *)
(* on the store of session s with no lock                                  *)
(***************************************************************************)
\* the first key of a set of file ids in the order of the dict: file ids are
\* inserted in the order they are drawn
FirstOf(file_ids) == CHOOSE f \in file_ids : \A g \in file_ids : f <= g

\* lines 103-108: the clock is read and the expired file ids are collected
sweep_collect(th, s) ==
    /\ pc[th] = "idle"
    /\ pc' = [pc EXCEPT ![th] = "sweep"]
    /\ local' = [local EXCEPT ![th] =
                    [expired_files |-> ExpiredFiles(file_registry[s], now),
                     todo |-> ExpiredFiles(file_registry[s], now)]]
    /\ UNCHANGED <<now, fs, file_registry, transfer_codes, next_id, ret>>

\* lines 111-123, one turn of the loop.  self.file_registry[file_id] raises
\* KeyError when another request has deleted the record: the except of line
\* 128 ends the sweep there
sweep_file(th, s) ==
    /\ pc[th] = "sweep"
    /\ local[th].todo # {}
    /\ LET file_id == FirstOf(local[th].todo)
       IN IF file_id \in DOMAIN file_registry[s]
          THEN /\ fs' = RemoveFiles(fs, {file_registry[s][file_id].path}, {})
               /\ file_registry' = [file_registry EXCEPT ![s] = Del(@, {file_id})]
               /\ local' = [local EXCEPT ![th].todo = @ \ {file_id}]
               /\ UNCHANGED <<pc, ret>>
          ELSE /\ pc' = [pc EXCEPT ![th] = "idle"]
               /\ local' = [local EXCEPT ![th] = NoLocal]
               /\ ret' = Call("cleanup_expired_files", None, None)
               /\ UNCHANGED <<fs, file_registry>>
    /\ UNCHANGED <<now, transfer_codes, next_id>>

\* line 126 and the return: _cleanup_orphaned_files, with its clock reading t1
sweep_orphans(th, s, t1) ==
    /\ pc[th] = "sweep"
    /\ local[th].todo = {}
    /\ t1 \in Later(now)
    /\ fs' = RemoveFiles(fs, Orphans(fs, file_registry[s], t1), {})
    /\ now' = t1
    /\ pc' = [pc EXCEPT ![th] = "idle"]
    /\ local' = [local EXCEPT ![th] = NoLocal]
    /\ ret' = Call("cleanup_expired_files", None, None)
    /\ UNCHANGED <<file_registry, transfer_codes, next_id>>

SweepThreadStep(th, s) ==
    \/ sweep_collect(th, s)
    \/ sweep_file(th, s)
    \/ \E t1 \in Later(now) : sweep_orphans(th, s, t1)

DeleteThreadStep(th, s) ==
    \/ \E file_id \in FileIds : delete_file_remove(th, s, file_id)
    \/ delete_file_del(th, s)

(***************************************************************************)
(* SpecSweepThreads: two threads on the FileManager of session "A": "A"    *)
(* uploads and sweeps, "B" deletes files                                   *)
(***************************************************************************)
NextSweepThreads ==
    \/ \E t \in RegistryClock : Tick(t)
    \/ \E u \in Uploads : \E t1 \in Later(now) : \E t2 \in Later(t1) :
          save_uploaded_file("A", u, FALSE, "ok", t1, t2)
    \/ SweepThreadStep("A", "A")
    \/ DeleteThreadStep("B", "A")

SpecSweepThreads == Init /\ [][NextSweepThreads]_vars

(***************************************************************************)
(* Properties                                                              *)
(***************************************************************************)
Store == "A"

\* the bytes that were uploaded under a name
DataOf(name) == (CHOOSE u \in Uploads : u.name = name).data

\* download_by_code returned the bytes and the name uploaded under file_info
ReturnsFile(r, file_info) ==
    /\ r.op = "download_by_code"
    /\ r.val.kind = "value"
    /\ r.val.v = <<DataOf(file_info.original_name), file_info.original_name>>

\* C1: a code issued at time t (created_at) is redeemable up to t + 24 h:
\* every download_by_code of it at a time no later than created_at + 24 h
\* returns the uploaded bytes and name, whatever downloads and sweeps ran before.
C1_RedeemableFor24h ==
    [][\A code \in CodeSpace :
          ( /\ download_by_code(Store, code)
            /\ code \in DOMAIN transfer_codes[Store]
            /\ now <= transfer_codes[Store][code].created_at
                          + Hours(transfer_expiry_hours) )
          => ReturnsFile(ret', transfer_codes[Store][code])]_vars

\* the file a record stands for
SameFile(a, b) ==
    /\ a.file_path = b.file_path
    /\ a.original_name = b.original_name
    /\ a.created_at = b.created_at
    /\ a.expires_at = b.expires_at
    /\ a.size = b.size

\* the codes of the records that have not expired
ActiveCodes(codes, t) == {code \in DOMAIN codes : t <= codes[code].expires_at}

\* C2: create_transfer_code never returns a code held by an active record:
\* a step that stores a record returns a code no active record held, and every
\* active record is still there, for the same file, after any step.
C2_FreshCode ==
    [][/\ \A code \in ActiveCodes(transfer_codes[Store], now) :
             /\ code \in DOMAIN transfer_codes'[Store]
             /\ SameFile(transfer_codes[Store][code], transfer_codes'[Store][code])
       /\ ( /\ ret'.op = "create_transfer_code"
            /\ ret'.val.kind = "value"
            /\ transfer_codes' # transfer_codes )
          => /\ ret'.val.v \notin ActiveCodes(transfer_codes[Store], now)
             /\ ret'.val.v \in DOMAIN transfer_codes'[Store]
             /\ DOMAIN transfer_codes'[Store]
                   = DOMAIN transfer_codes[Store] \cup {ret'.val.v}]_vars

\* a code was issued while another record was active, and both are held
C2_Witness ==
    /\ ret.op = "create_transfer_code"
    /\ ret.val.kind = "value"
    /\ ret.val.v \in ActiveCodes(transfer_codes[Store], now)
    /\ ActiveCodes(transfer_codes[Store], now) \ {ret.val.v} # {}

\* C3: get_file_info returns None for a file whose expires_at has passed, also
\* when no sweep has removed it yet.
C3_GetExpiredIsNotFound ==
    [][\A file_id \in FileIds :
          ( /\ get_file_info(Store, file_id)
            /\ file_id \in DOMAIN file_registry[Store]
            /\ now > file_registry[Store][file_id].expires_at )
          => ret'.val.kind = "None"]_vars

\* C4: download_by_code of a code whose record has expired (now > expires_at)
\* returns no bytes, swept or not, blob present or not.
C4_ExpiredNeverServed ==
    [][\A code \in TypedCodes :
          ( /\ download_by_code(Store, code)
            /\ code \in DOMAIN transfer_codes[Store]
            /\ now > transfer_codes[Store][code].expires_at )
          => /\ ret'.val.kind = "None"
             /\ transfer_codes' = transfer_codes]_vars

\* an expired code whose blob is still in the directory was asked for and refused
C4_Witness ==
    /\ ret.op = "download_by_code"
    /\ ret.val.kind = "None"
    /\ ret.arg \in DOMAIN transfer_codes[Store]
    /\ now > transfer_codes[Store][ret.arg].expires_at
    /\ transfer_codes[Store][ret.arg].file_path \in DOMAIN fs

\* C5: a code created in one session is redeemable in another: before expiry,
\* download_by_code in session b of a code held by session a returns a's file.
C5_CrossSessionRedeem ==
    [][\A a \in Sessions, b \in Sessions, code \in CodeSpace :
          ( /\ download_by_code(b, code)
            /\ code \in DOMAIN transfer_codes[a]
            /\ now <= transfer_codes[a][code].expires_at )
          => ReturnsFile(ret', transfer_codes[a][code])]_vars

\* C6: one sweep removes the registered files whose expires_at is in the past
\* and only those: every file whose expires_at is in the future keeps its
\* record and its blob, every removed id is unknown to get_file_info, and no
\* other record appears.
C6_SweepRemovesExactlyExpired ==
    [][\A t1 \in Later(now) :
          cleanup_expired_files(Store, {}, t1)
          => LET before == file_registry[Store]
                 after == file_registry'[Store]
             IN /\ DOMAIN after \subseteq DOMAIN before
                /\ \A file_id \in DOMAIN before :
                      /\ before[file_id].expires_at < now
                            => /\ file_id \notin DOMAIN after
                               /\ before[file_id].path \notin DOMAIN fs'
                               /\ RegistryGet(after, file_id) = None
                      /\ before[file_id].expires_at > now
                            => /\ file_id \in DOMAIN after
                               /\ after[file_id] = before[file_id]
                               /\ before[file_id].path \in DOMAIN fs
                                     => /\ before[file_id].path \in DOMAIN fs'
                                        /\ fs'[before[file_id].path]
                                              = fs[before[file_id].path]]_vars

\* a sweep has run that left one unexpired file, with its blob, of the two
\* that were registered
C6_Witness ==
    /\ ret.op = "cleanup_expired_files"
    /\ next_id = 2
    /\ \E file_id \in DOMAIN file_registry[Store] :
          /\ DOMAIN file_registry[Store] = {file_id}
          /\ file_registry[Store][file_id].expires_at > now
          /\ DOMAIN fs = {file_registry[Store][file_id].path}

\* C7: download_by_code of the code create_transfer_code has just returned,
\* before the code expires, returns the uploaded bytes and the uploaded name.
C7_RoundTrip ==
    [][\A code \in CodeSpace :
          ( /\ ret.op = "create_transfer_code"
            /\ ret.val = Value(code)
            /\ download_by_code(Store, code)
            /\ now <= transfer_codes[Store][code].expires_at )
          => ret'.val = Value(<<ret.arg.data, ret.arg.name>>)]_vars

\* a code has been redeemed at the clock reading it was created at
C7_Witness ==
    /\ ret.op = "download_by_code"
    /\ ret.val.kind = "value"
    /\ ret.arg \in DOMAIN transfer_codes[Store]
    /\ transfer_codes[Store][ret.arg].created_at = now
    /\ ret.val.v[2] = transfer_codes[Store][ret.arg].original_name
    /\ ret.val.v[1] = DataOf(ret.val.v[2])

\* what download_by_code returns for a code that is no key of the store
NotFoundResult == None

\* C8: download_by_code tells "expired" from "not found": for a code whose
\* record exists with now > expires_at the result differs from NotFoundResult.
C8_ExpiredIsNotNotFound ==
    [][\A code \in TypedCodes :
          ( /\ download_by_code(Store, code)
            /\ code \in DOMAIN transfer_codes[Store]
            /\ now > transfer_codes[Store][code].expires_at )
          => ret'.val # NotFoundResult]_vars

\* C9: a sweep purges every transfer record whose expires_at has passed: its
\* code is no key of the store afterwards (and so can be drawn again) and its
\* blob is gone.
C9_SweepPurgesExpiredCodes ==
    [][\A t1 \in Later(now) :
          cleanup_expired_files(Store, {}, t1)
          => \A code \in DOMAIN transfer_codes[Store] :
                now > transfer_codes[Store][code].expires_at
                => /\ code \notin DOMAIN transfer_codes'[Store]
                   /\ transfer_codes[Store][code].file_path \notin DOMAIN fs']_vars

\* C10: a create_transfer_code running on a store whose code space is
\* exhausted ends, raising a capacity error.
C10_ExhaustedTerminates ==
    [](( pc[Store] = "draw" /\ Exhausted(Store) )
         => <>( /\ pc[Store] = "idle"
                /\ ret.op = "create_transfer_code"
                /\ ret.val.kind = "raise" ))

\* C11: two create_transfer_code calls interleaved on one store never reserve
\* the same code: no step of either call replaces the record (and the file) a
\* code already stands for.
C11_NoDoubleReservation ==
    [][\A code \in DOMAIN transfer_codes[Store] :
          /\ code \in DOMAIN transfer_codes'[Store]
          /\ transfer_codes'[Store][code].file_path
                = transfer_codes[Store][code].file_path]_vars

\* C12: while another request deletes a file, get_file_info never returns a
\* record whose blob is already gone from the directory: the record leaves
\* the registry before, or together with, its blob.
C12_GetNeverSeesDeletedBlob ==
    [][\A th \in Sessions, file_id \in FileIds :
          get_file_info_by(th, Store, file_id)
          => ( ret'.val.kind = "value" => ret'.val.v.path \in DOMAIN fs )]_vars

\* C13: when the removal of the blob fails, delete_file and the sweep still
\* remove the registry entry: the file is no longer found afterwards.
C13_MetadataRemovedOnFailure ==
    [][\A undeletable \in SUBSET DOMAIN fs :
          /\ \A t1 \in Later(now) :
                cleanup_expired_files(Store, undeletable, t1)
                => ExpiredFiles(file_registry[Store], now)
                      \cap DOMAIN file_registry'[Store] = {}
          /\ \A file_id \in DOMAIN file_registry[Store] :
                delete_file(Store, file_id, undeletable)
                => /\ file_id \notin DOMAIN file_registry'[Store]
                   /\ RegistryGet(file_registry'[Store], file_id) = None]_vars

\* C14: whatever the clock does during the call, a registered file has
\* expires_at - created_at of exactly 48 hours when it is an admin upload and
\* of exactly 30 minutes when it is another upload or a processing result.
C14_ExactWindow ==
    \A file_id \in DOMAIN file_registry[Store] :
       LET file_info == file_registry[Store][file_id]
           extended == "is_admin" \in DOMAIN file_info /\ file_info.is_admin
       IN file_info.expires_at - file_info.created_at
             = IF extended THEN Hours(admin_expiration_hours)
                           ELSE Minutes(expiration_minutes)

\* C15: delete_file of a registered file returns True and removes its record
\* and its blob; the file id is never registered again, and delete_file of an
\* id that is not registered (so every later delete_file of the same id)
\* returns False and changes nothing.
C15_DeleteTwice ==
    [][/\ \A file_id \in FileIds :
             delete_file(Store, file_id, {})
             => IF file_id \in DOMAIN file_registry[Store]
                THEN /\ ret'.val = Value(TRUE)
                     /\ file_id \notin DOMAIN file_registry'[Store]
                     /\ file_registry[Store][file_id].path \notin DOMAIN fs'
                ELSE /\ ret'.val = Value(FALSE)
                     /\ UNCHANGED <<fs, file_registry, transfer_codes>>
       /\ \A file_id \in 1 .. next_id :
             file_id \notin DOMAIN file_registry[Store]
             => file_id \notin DOMAIN file_registry'[Store]]_vars

\* a second delete_file of a file that was registered: no sweep can have
\* removed it, as no file expires before expiration_minutes
C15_Witness ==
    /\ ret.op = "delete_file"
    /\ ret.val = Value(FALSE)
    /\ ret.arg \in 1 .. next_id
    /\ now < Minutes(expiration_minutes)
    /\ fs = Empty

\* C16: a sweep removes every file of the directory that no record of the
\* registry names and whose modification time is more than
\* expiration_minutes before the sweep's reading of the clock, and keeps,
\* unchanged, every such file modified less than expiration_minutes before.
C16_OrphansByAge ==
    [][\A t1 \in Later(now) :
          cleanup_expired_files(Store, {}, t1)
          => \A path \in DOMAIN fs \ RegisteredPaths(file_registry[Store]) :
                /\ t1 - fs[path].mtime > Minutes(expiration_minutes)
                   => path \notin DOMAIN fs'
                /\ t1 - fs[path].mtime < Minutes(expiration_minutes)
                   => path \in DOMAIN fs' /\ fs'[path] = fs[path]]_vars

\* after a sweep: a young file without a record is still there, an older one
\* is gone
C16_Witness ==
    /\ ret.op = "cleanup_expired_files"
    /\ file_registry[Store] = Empty
    /\ next_id = 2
    /\ \E path \in DOMAIN fs :
          /\ DOMAIN fs = {path}
          /\ path[2] = 2
          /\ now - fs[path].mtime < Minutes(expiration_minutes)

\* C17: a sweep returns the number of registry entries it removes: N when N
\* files have expired, 1 for one 30-minute file registered at 0 and swept at
\* 31.
C17_SweepReturnsCount ==
    [][\A t1 \in Later(now) :
          cleanup_expired_files(Store, {}, t1)
          => /\ ret'.val.kind = "value"
             /\ ret'.val.v = Cardinality(ExpiredFiles(file_registry[Store], now))
             /\ ret'.val.v = Cardinality(DOMAIN file_registry[Store]
                                            \ DOMAIN file_registry'[Store])]_vars

\* C18: an upload with an empty name, and a lookup or a download with a
\* malformed code, are rejected with an invalid-input error and leave the
\* registry, the code map and the directory as they were.
C18_InvalidInputRejected ==
    [][/\ \A u \in InvalidUploads : \A t1 \in Later(now) : \A t2 \in Later(t1) :
             save_uploaded_file(Store, u, FALSE, "ok", t1, t2)
             => /\ ret'.val.kind = "raise"
                /\ UNCHANGED <<file_registry, transfer_codes, fs>>
       /\ \A code \in MalformedCodes :
             get_file_by_code(Store, code) \/ download_by_code(Store, code)
             => /\ ret'.val.kind = "raise"
                /\ UNCHANGED <<file_registry, transfer_codes, fs>>]_vars

\* C19: extend_file_expiration of a registered file adds the duration to its
\* expires_at and changes no other field and no other record; of a file that
\* is not registered it returns False and changes nothing.
C19_ExtendAddsDuration ==
    [][\A file_path \in AnyPaths, additional_minutes \in AdditionalMinutes :
          extend_file_expiration(Store, file_path, additional_minutes)
          => /\ UNCHANGED <<fs, transfer_codes>>
             /\ IF file_path \in RegisteredPaths(file_registry[Store])
                THEN /\ ret'.val = Value(TRUE)
                     /\ \E file_id \in DOMAIN file_registry[Store] :
                           /\ file_registry[Store][file_id].path = file_path
                           /\ file_registry' =
                                 [file_registry EXCEPT ![Store][file_id].expires_at =
                                     @ + Minutes(additional_minutes)]
                ELSE /\ ret'.val = Value(FALSE)
                     /\ file_registry' = file_registry]_vars

\* a 30-minute upload whose lifetime an extension has made longer, next to a
\* record that was left alone
C19_Witness ==
    /\ ret.op = "extend_file_expiration"
    /\ ret.val = Value(TRUE)
    /\ \E file_id, other \in DOMAIN file_registry[Store] :
          LET file_info == file_registry[Store][file_id]
          IN /\ file_info.path = ret.arg
             /\ ~file_info.is_admin
             /\ file_info.expires_at - file_info.created_at > Minutes(expiration_minutes)
             /\ other # file_id

\* C20: the value get_all_files has returned is a snapshot: what is read
\* through it stays what it was when the call returned, whatever is
\* registered, deleted or swept afterwards.
C20_ListIsSnapshot ==
    "all_files" \in DOMAIN local[Store]
    => Items(local[Store].all_files) = local[Store].items

\* C21: every registered file has expires_at > created_at, whatever uploads
\* and extensions, with whatever number of minutes, have been made.
C21_ExpiresAfterCreated ==
    \A file_id \in DOMAIN file_registry[Store] :
       file_registry[Store][file_id].expires_at
          > file_registry[Store][file_id].created_at

\* C22: a file whose expires_at has passed stays expired for as long as it
\* is registered: no call, extend_file_expiration included, gives it an
\* expires_at that is not in the past; and the sweep that follows removes it.
C22_ExpiredStaysExpired ==
    [][\A file_id \in DOMAIN file_registry[Store] :
          now > file_registry[Store][file_id].expires_at
          => /\ file_id \in DOMAIN file_registry'[Store]
                => now' > file_registry'[Store][file_id].expires_at
             /\ (\E t1 \in Later(now) : cleanup_expired_files(Store, {}, t1))
                => file_id \notin DOMAIN file_registry'[Store]]_vars

\* C23: a sweep whose reading of the clock equals a file's expires_at
\* removes that file.
C23_SweepAtExpiry ==
    [][\A t1 \in Later(now) :
          cleanup_expired_files(Store, {}, t1)
          => \A file_id \in DOMAIN file_registry[Store] :
                file_registry[Store][file_id].expires_at = now
                => file_id \notin DOMAIN file_registry'[Store]]_vars

\* C24: every transfer record has expires_at = created_at + 24 hours,
\* whatever the clock does during create_transfer_code, and no call changes
\* the expires_at of a record.
C24_TransferExpiryExact ==
    [][/\ \A code \in DOMAIN transfer_codes'[Store] :
             transfer_codes'[Store][code].expires_at
                = transfer_codes'[Store][code].created_at
                     + Hours(transfer_expiry_hours)
       /\ \A code \in DOMAIN transfer_codes[Store] \cap DOMAIN transfer_codes'[Store] :
             transfer_codes'[Store][code].file_path = transfer_codes[Store][code].file_path
             => transfer_codes'[Store][code].expires_at
                   = transfer_codes[Store][code].expires_at]_vars

\* C25: with fair draws, a create_transfer_code that is looping while some
\* four-digit value is held by no record ends and returns a code.  (999
\* stands for the four-digit texts "0000" to "0999".)
C25_FreeValueIsFound ==
    [](( /\ pc[Store] = "draw"
         /\ \E code \in TypedCodes : code \notin DOMAIN transfer_codes[Store] )
         => <>( /\ pc[Store] = "idle"
                /\ ret.op = "create_transfer_code"
                /\ ret.val.kind = "value" ))

\* C26: a sweep in which os.remove fails for one file goes on: every expired
\* file leaves the registry, the blob of every other expired file is removed,
\* and every other old file without a record is removed in the same sweep.
C26_SweepGoesOn ==
    [][\A undeletable \in SingleFailures(fs) : \A t1 \in Later(now) :
          cleanup_expired_files(Store, undeletable, t1)
          => /\ \A file_id \in ExpiredFiles(file_registry[Store], now) :
                   /\ file_id \notin DOMAIN file_registry'[Store]
                   /\ file_registry[Store][file_id].path \notin undeletable
                      => file_registry[Store][file_id].path \notin DOMAIN fs'
             /\ \A path \in DOMAIN fs \ RegisteredPaths(file_registry[Store]) :
                   ( /\ t1 - fs[path].mtime > Minutes(expiration_minutes)
                     /\ path \notin undeletable )
                   => path \notin DOMAIN fs']_vars

\* after a sweep: an old file without a record is still there, which only a
\* failing os.remove explains, and the other file is gone
C26_Witness ==
    /\ ret.op = "cleanup_expired_files"
    /\ file_registry[Store] = Empty
    /\ next_id = 2
    /\ Cardinality(DOMAIN fs) = 1
    /\ \A path \in DOMAIN fs : now - fs[path].mtime > Minutes(expiration_minutes)

\* C27: the downloaded flag of a transfer record is true exactly when a
\* download_by_code of its code has succeeded: a new record has it false, and
\* in every step it becomes (old flag or "this step is a successful download
\* of the code"), so a lookup or a failed download leaves it as it was and
\* nothing resets it.
C27_DownloadedIffRedeemed ==
    [][/\ \A code \in DOMAIN transfer_codes'[Store] \ DOMAIN transfer_codes[Store] :
             ~transfer_codes'[Store][code].downloaded
       /\ \A code \in DOMAIN transfer_codes[Store] :
             /\ code \in DOMAIN transfer_codes'[Store]
             /\ transfer_codes'[Store][code].downloaded
                   = ( \/ transfer_codes[Store][code].downloaded
                       \/ ( /\ download_by_code(Store, code)
                            /\ ret'.val.kind = "value" ) )]_vars

\* a download that failed on a record an earlier download has marked
C27_Witness ==
    /\ ret.op = "download_by_code"
    /\ ret.val.kind = "None"
    /\ ret.arg \in DOMAIN transfer_codes[Store]
    /\ transfer_codes[Store][ret.arg].downloaded
    /\ \E code \in DOMAIN transfer_codes[Store] : ~transfer_codes[Store][code].downloaded

\* C28: when the write (or the copy) of the blob fails in save_uploaded_file,
\* save_processed_file or create_transfer_code, the call raises and the file
\* registry and the transfer codes are what they were before the call.
C28_FailedWriteChangesNoMap ==
    [][\A u \in Uploads : \A t1 \in Later(now) : \A t2 \in Later(t1) :
          /\ \A outcome \in WriteOutcomes \ {"ok"} :
                \/ save_uploaded_file(Store, u, FALSE, outcome, t1, t2)
                \/ \E code \in CodeSpace :
                      /\ CodeIsFree(transfer_codes[Store], code)
                      /\ \/ create_transfer_code(Store, u, code, outcome, t1, t2)
                         \/ create_transfer_code_loop(Store, code, outcome, t1, t2)
                => /\ ret'.val.kind = "raise"
                   /\ UNCHANGED <<file_registry, transfer_codes>>
          /\ \A outcome \in CopyOutcomes \ {"ok"} : \A m \in Earlier(now) :
                save_processed_file(Store, u, m, outcome, t1, t2)
                => /\ ret'.val.kind = "raise"
                   /\ UNCHANGED <<file_registry, transfer_codes>>]_vars

\* a failed create_transfer_code on a store that holds a file or a code
C28_Witness ==
    /\ ret.op = "create_transfer_code"
    /\ ret.val.kind = "raise"
    /\ file_registry[Store] # Empty \/ transfer_codes[Store] # Empty

\* C29: the sweep of one session's FileManager never removes the blob of a
\* file that another session's FileManager has registered and that has not
\* expired.
C29_SweepSparesOtherSessions ==
    [][\A s \in Sessions : \A t1 \in Later(now) :
          cleanup_expired_files(s, {}, t1)
          => \A other \in Sessions \ {s} :
                \A file_id \in DOMAIN file_registry[other] :
                   LET file_info == file_registry[other][file_id]
                   IN ( /\ file_info.expires_at > t1
                        /\ file_info.path \in DOMAIN fs )
                      => file_info.path \in DOMAIN fs']_vars

\* C30: a sweep that runs while another request deletes or registers files
\* on the same store is never cut short: when it returns, every file that
\* was expired when it started has left the registry and the directory.
C30_SweepNeverAborts ==
    [][\A th \in Sessions :
          ( pc[th] = "sweep" /\ pc'[th] = "idle" )
          => \A file_id \in local[th].expired_files :
                /\ file_id \notin DOMAIN file_registry'[Store]
                /\ \A path \in DOMAIN fs' : path[2] # file_id]_vars
====
